---------------------------- MODULE Spec2Model ----------------------------
(***************************************************************************)
(* A model of the NOVA backend (src/backend/main.py): the two audio        *)
(* endpoints /api/v1/listen and /api/v1/recognise running as tasks of one  *)
(* asyncio event loop, the temporary files they allocate, the lazily       *)
(* loaded Whisper handle, and the wake-word detector (voice-activity gate  *)
(* and transcript matcher).                                                *)
(*                                                                         *)
(* Strings are sequences of one-character strings.  Floats that the code   *)
(* compares or rounds are kept exact: a similarity ratio is the pair of    *)
(* integers (2*matches, total length), a confidence is an integer number   *)
(* of hundredths.                                                          *)
(***************************************************************************)
EXTENDS Integers, Sequences, FiniteSets, TLC

(***************************************************************************)
(* Bounds of the model.                                                    *)
(***************************************************************************)
\* Longest transcript, in tokens, that the detector is run on.
MaxTokens == 3
\* Longest audio buffer, in whole 30 ms frames, that the gate is run on.
MaxFrames == 3

(***************************************************************************)
(* Text helpers: Python's str.lower, str.strip, str.split, " ".join and    *)
(* the substring test, over the characters the transcripts use.            *)
(***************************************************************************)
Lower(c) ==
    CASE c = "H" -> "h"
      [] c = "I" -> "i"
      [] c = "N" -> "n"
      [] c = "O" -> "o"
      [] c = "V" -> "v"
      [] c = "A" -> "a"
      [] OTHER -> c

lower(s) == [i \in 1..Len(s) |-> Lower(s[i])]

IsSpace(c) == c = " "

RECURSIVE lstrip(_)
lstrip(s) == IF s # <<>> /\ IsSpace(Head(s)) THEN lstrip(Tail(s)) ELSE s

RECURSIVE rstrip(_)
rstrip(s) ==
    IF s # <<>> /\ IsSpace(s[Len(s)]) THEN rstrip(SubSeq(s, 1, Len(s) - 1)) ELSE s

strip(s) == rstrip(lstrip(s))

\* str.split(): the maximal runs of non-space characters, in order.
RECURSIVE SplitFrom(_, _, _)
SplitFrom(s, cur, acc) ==
    IF s = <<>>
    THEN IF cur = <<>> THEN acc ELSE Append(acc, cur)
    ELSE IF IsSpace(Head(s))
         THEN SplitFrom(Tail(s), <<>>, IF cur = <<>> THEN acc ELSE Append(acc, cur))
         ELSE SplitFrom(Tail(s), Append(cur, Head(s)), acc)

split(s) == SplitFrom(s, <<>>, <<>>)

\* " ".join(ws)
RECURSIVE join(_)
join(ws) ==
    IF ws = <<>> THEN <<>>
    ELSE IF Len(ws) = 1 THEN ws[1]
    ELSE ws[1] \o <<" ">> \o join(Tail(ws))

\* needle in hay
Contains(hay, needle) ==
    \E i \in 0..(Len(hay) - Len(needle)) :
        \A l \in 1..Len(needle) : hay[i + l] = needle[l]

(***************************************************************************)
(* difflib.SequenceMatcher(None, a, b).ratio().  No character is junk      *)
(* (isjunk is None, and the "popular" heuristic needs len(b) >= 200), so   *)
(* find_longest_match returns the longest common block of a[alo:ahi] and   *)
(* b[blo:bhi], the one that starts earliest in a and, of those, earliest   *)
(* in b.  Indices are Python's: 0-based, half-open.                        *)
(***************************************************************************)
\* How far a[i:ahi] and b[j:bhi] agree from their starts.
RECURSIVE RunLength(_, _, _, _, _, _)
RunLength(a, b, i, j, ahi, bhi) ==
    IF i < ahi /\ j < bhi /\ a[i + 1] = b[j + 1]
    THEN 1 + RunLength(a, b, i + 1, j + 1, ahi, bhi)
    ELSE 0

find_longest_match(a, b, alo, ahi, blo, bhi) ==
    IF \A i \in alo..(ahi - 1), j \in blo..(bhi - 1) : a[i + 1] # b[j + 1]
    THEN [i |-> alo, j |-> blo, k |-> 0]
    ELSE CHOOSE x \in {[i |-> i, j |-> j, k |-> RunLength(a, b, i, j, ahi, bhi)] :
                          i \in alo..(ahi - 1), j \in blo..(bhi - 1)} :
             \A i \in alo..(ahi - 1), j \in blo..(bhi - 1) :
                 LET k == RunLength(a, b, i, j, ahi, bhi)
                 IN  \/ x.k > k
                     \/ x.k = k /\ x.i < i
                     \/ x.k = k /\ x.i = i /\ x.j <= j

\* The total size of get_matching_blocks(): the longest block, then the
\* same to its left and to its right.
RECURSIVE MatchingSize(_, _, _, _, _, _)
MatchingSize(a, b, alo, ahi, blo, bhi) ==
    LET m == find_longest_match(a, b, alo, ahi, blo, bhi)
    IN  IF m.k = 0 THEN 0
        ELSE m.k
             + (IF alo < m.i /\ blo < m.j
                THEN MatchingSize(a, b, alo, m.i, blo, m.j) ELSE 0)
             + (IF m.i + m.k < ahi /\ m.j + m.k < bhi
                THEN MatchingSize(a, b, m.i + m.k, ahi, m.j + m.k, bhi) ELSE 0)

\* A ratio 2.0 * matches / length as the fraction num/den; 1.0 when both
\* strings are empty.
Ratio(a, b) ==
    IF Len(a) + Len(b) = 0
    THEN [num |-> 1, den |-> 1]
    ELSE [num |-> 2 * MatchingSize(a, b, 0, Len(a), 0, Len(b)),
          den |-> Len(a) + Len(b)]

\* x >= y and max(x, y) on such fractions.
RatioGeq(x, y) == x.num * y.den >= y.num * x.den
RatioMax(x, y) == IF RatioGeq(y, x) /\ ~RatioGeq(x, y) THEN y ELSE x


\* round(x, 2) and f"{x:.2f}" of the fraction num/den, in hundredths: the
\* nearest integer to 100*num/den, a tie going to the even one.
RoundHundredths(num, den) ==
    LET q == (100 * num) \div den
        r == (100 * num) % den
    IN  IF 2 * r > den THEN q + 1
        ELSE IF 2 * r < den THEN q
        ELSE IF q % 2 = 0 THEN q ELSE q + 1

Min(x, y) == IF x <= y THEN x ELSE y

(***************************************************************************)
(* WakeWordDetector: its configuration.                                    *)
(***************************************************************************)
wake_phrase == <<"h", "i", " ", "n", "o", "v", "a">>

\* similarity_threshold = 0.7
similarity_threshold == [num |-> 7, den |-> 10]

similarity_score(text1, text2) == Ratio(lower(text1), lower(text2))

(***************************************************************************)
(* Audio handed to the gate.  A buffer is its length in bytes and what     *)
(* webrtcvad.Vad.is_speech does on each of its whole 960-byte frames:      *)
(* "speech", "silence", or "error" (it raises).  NoAudio is Python's None. *)
(***************************************************************************)
frame_duration == 30

frame_size == ((16000 * frame_duration) \div 1000) * 2

Verdicts == {"speech", "silence", "error"}

NoAudio == [none |-> TRUE, len |-> 0, vad |-> <<>>]

Buffer(vad, tail) == [none |-> FALSE, len |-> Len(vad) * frame_size + tail, vad |-> vad]

\* vad.is_speech(audio_data[i:i + frame_size], 16000)
is_speech(audio_data, i) == audio_data.vad[(i \div frame_size) + 1]

\* The loop of has_speech_activity from offset i on: the frames at i,
\* i + frame_size, ... below stop, until one is speech or raises.
RECURSIVE ScanFrames(_, _, _, _)
ScanFrames(audio_data, i, stop, seen) ==
    IF i >= stop
    THEN [speech |-> FALSE, raised |-> FALSE, analysed |-> seen]
    ELSE IF Min(audio_data.len - i, frame_size) = frame_size
         THEN LET v == is_speech(audio_data, i)
              IN  IF v = "error"
                  THEN [speech |-> TRUE, raised |-> TRUE, analysed |-> seen \cup {i}]
                  ELSE IF v = "speech"
                  THEN [speech |-> TRUE, raised |-> FALSE, analysed |-> seen \cup {i}]
                  ELSE ScanFrames(audio_data, i + frame_size, stop, seen \cup {i})
         ELSE ScanFrames(audio_data, i + frame_size, stop, seen)

\* range(0, len(audio_data) - frame_size, frame_size) stops below this.
ScanStop(audio_data) == audio_data.len - frame_size

\* has_speech_activity with "return False" in its except block.
has_speech_activity_fail_closed(audio_data, sample_rate, librosa) ==
    IF sample_rate # 16000 /\ librosa.raises
    THEN [speech |-> FALSE, raised |-> TRUE, analysed |-> {}, resampled |-> FALSE,
          scanned |-> NoAudio]
    ELSE LET data == IF sample_rate # 16000 THEN librosa.data ELSE audio_data
             scan == ScanFrames(data, 0, ScanStop(data), {})
         IN  [speech |-> scan.speech /\ ~scan.raised, raised |-> scan.raised,
              analysed |-> scan.analysed, resampled |-> sample_rate # 16000,
              scanned |-> data]

\* has_speech_activity(audio_data, sample_rate).  librosa is what
\* librosa.load does with the bytes when it is called: it raises, or it
\* returns the resampled samples (librosa.data, once converted to int16).
\* Any exception, of librosa or of the VAD, ends in "return True".
has_speech_activity(audio_data, sample_rate, librosa) ==
    IF sample_rate # 16000 /\ librosa.raises
    THEN [speech |-> TRUE, raised |-> TRUE, analysed |-> {}, resampled |-> FALSE,
          scanned |-> NoAudio]
    ELSE LET data == IF sample_rate # 16000 THEN librosa.data ELSE audio_data
             scan == ScanFrames(data, 0, ScanStop(data), {})
         IN  [speech |-> scan.speech, raised |-> scan.raised,
              analysed |-> scan.analysed, resampled |-> sample_rate # 16000,
              scanned |-> data]


(***************************************************************************)
(* WakeWordDetector.detect.                                                *)
(***************************************************************************)
\* "if audio_data:" is false for None and for an empty byte string.
Truthy(audio_data) == ~audio_data.none /\ audio_data.len > 0

\* The loop with range(len(words) - 2): the last window is left out.
RECURSIVE WindowLoop_short(_, _, _)
WindowLoop_short(words, i, similarity) ==
    IF i >= Len(words) - 2
    THEN similarity
    ELSE LET phrase == join(SubSeq(words, i + 1, i + 2))
             word_similarity == similarity_score(phrase, wake_phrase)
         IN  WindowLoop_short(words, i + 1, RatioMax(similarity, word_similarity))

\* The loop over the 2-word windows words[i:i+2], from window i on.
RECURSIVE WindowLoop(_, _, _)
WindowLoop(words, i, similarity) ==
    IF i >= Len(words) - 1
    THEN similarity
    ELSE LET phrase == join(SubSeq(words, i + 1, i + 2))
             word_similarity == similarity_score(phrase, wake_phrase)
         IN  WindowLoop(words, i + 1, RatioMax(similarity, word_similarity))

\* The windows the loop compares: range(len(words) - 1).
WindowCount(words) == IF Len(words) > 1 THEN Len(words) - 1 ELSE 0

\* match_transcript with "transcript.strip()": the transcript's case is kept.
match_transcript_as_typed(transcript) ==
    LET transcript_clean == strip(transcript)
    IN  IF Contains(transcript_clean, wake_phrase)
        THEN [detected |-> TRUE, confidence |-> 95, reason |-> "Direct match found",
              score |-> -1, sims |-> 0]
        ELSE LET words == split(transcript_clean)
                 similarity == WindowLoop(words, 0,
                                   similarity_score(transcript_clean, wake_phrase))
                 detected == RatioGeq(similarity, similarity_threshold)
                 \* min(similarity * 1.2, 1.0)
                 confidence == IF 12 * similarity.num >= 10 * similarity.den
                               THEN [num |-> 1, den |-> 1]
                               ELSE [num |-> 12 * similarity.num,
                                     den |-> 10 * similarity.den]
             IN  [detected |-> detected,
                  confidence |-> RoundHundredths(confidence.num, confidence.den),
                  reason |-> "Similarity score",
                  score |-> RoundHundredths(similarity.num, similarity.den),
                  sims |-> 1 + WindowCount(words)]

\* match_transcript without the min(..., 1.0) of the confidence.
match_transcript_unclamped(transcript) ==
    LET transcript_clean == strip(lower(transcript))
    IN  IF Contains(transcript_clean, wake_phrase)
        THEN [detected |-> TRUE, confidence |-> 95, reason |-> "Direct match found",
              score |-> -1, sims |-> 0]
        ELSE LET words == split(transcript_clean)
                 similarity == WindowLoop(words, 0,
                                   similarity_score(transcript_clean, wake_phrase))
                 detected == RatioGeq(similarity, similarity_threshold)
             IN  [detected |-> detected,
                  confidence |-> RoundHundredths(12 * similarity.num,
                                                 10 * similarity.den),
                  reason |-> "Similarity score",
                  score |-> RoundHundredths(similarity.num, similarity.den),
                  sims |-> 1 + WindowCount(words)]

\* detect from "transcript_clean = ..." on: the direct match, then the
\* fuzzy match.  score is the "x.xx" of the reason, in hundredths; sims
\* counts the calls of similarity_score.
match_transcript(transcript) ==
    LET transcript_clean == strip(lower(transcript))
    IN  IF Contains(transcript_clean, wake_phrase)
        THEN [detected |-> TRUE, confidence |-> 95, reason |-> "Direct match found",
              score |-> -1, sims |-> 0]
        ELSE LET words == split(transcript_clean)
                 similarity == WindowLoop(words, 0,
                                   similarity_score(transcript_clean, wake_phrase))
                 detected == RatioGeq(similarity, similarity_threshold)
                 \* min(similarity * 1.2, 1.0)
                 confidence == IF 12 * similarity.num >= 10 * similarity.den
                               THEN [num |-> 1, den |-> 1]
                               ELSE [num |-> 12 * similarity.num,
                                     den |-> 10 * similarity.den]
             IN  [detected |-> detected,
                  confidence |-> RoundHundredths(confidence.num, confidence.den),
                  reason |-> "Similarity score",
                  score |-> RoundHundredths(similarity.num, similarity.den),
                  sims |-> 1 + WindowCount(words)]

(***************************************************************************)
(* The transcripts the detector is run on.                                 *)
(***************************************************************************)
\* A transcript is up to MaxTokens tokens joined by single spaces; the
\* empty token gives leading, trailing and doubled spaces.
Tokens == { <<>>, <<"h", "i">>, <<"n", "o", "v", "a">>, <<"H", "i">>,
            <<"h", "e", "y">>, <<"N", "O">> }

Transcripts == {join(ts) : ts \in UNION {[1..n -> Tokens] : n \in 0..MaxTokens}}

\* match_transcript on every transcript of the model, computed once.
MatchTable == [t \in Transcripts |-> match_transcript(t)]

NoGate == [speech |-> TRUE, raised |-> FALSE, analysed |-> {}, resampled |-> FALSE,
           scanned |-> NoAudio]

\* librosa.load not called, or raising.
NoLibrosa == [raises |-> TRUE, data |-> NoAudio]

\* detect with the direct match tried before the gate's verdict is looked at.
detect_text_first(transcript, audio_data, sample_rate, librosa) ==
    LET called == Truthy(audio_data)
        gate == IF called THEN has_speech_activity(audio_data, sample_rate, librosa)
                ELSE NoGate
        has_speech == gate.speech
        m == MatchTable[transcript]
    IN  IF ~has_speech /\ m.reason # "Direct match found"
        THEN [detected |-> FALSE, confidence |-> 0,
              reason |-> "No speech activity detected", score |-> -1, sims |-> 0,
              gate_called |-> called, has_speech |-> has_speech, gate |-> gate]
        ELSE [detected |-> m.detected, confidence |-> m.confidence,
              reason |-> m.reason, score |-> m.score, sims |-> m.sims,
              gate_called |-> called, has_speech |-> has_speech, gate |-> gate]

\* detect with "if audio_data is not None:": the gate runs on an empty
\* byte string too.
detect_gate_unless_none(transcript, audio_data, sample_rate, librosa) ==
    LET called == ~audio_data.none
        gate == IF called THEN has_speech_activity(audio_data, sample_rate, librosa)
                ELSE NoGate
        has_speech == gate.speech
    IN  IF ~has_speech
        THEN [detected |-> FALSE, confidence |-> 0,
              reason |-> "No speech activity detected", score |-> -1, sims |-> 0,
              gate_called |-> called, has_speech |-> has_speech, gate |-> gate]
        ELSE LET m == MatchTable[transcript]
             IN  [detected |-> m.detected, confidence |-> m.confidence,
                  reason |-> m.reason, score |-> m.score, sims |-> m.sims,
                  gate_called |-> called, has_speech |-> has_speech, gate |-> gate]

\* detect(transcript, audio_data, sample_rate): the result dict, with
\* whether the gate was called and what it did.
detect(transcript, audio_data, sample_rate, librosa) ==
    LET called == Truthy(audio_data)
        gate == IF called THEN has_speech_activity(audio_data, sample_rate, librosa)
                ELSE NoGate
        has_speech == gate.speech
    IN  IF ~has_speech
        THEN [detected |-> FALSE, confidence |-> 0,
              reason |-> "No speech activity detected", score |-> -1, sims |-> 0,
              gate_called |-> called, has_speech |-> has_speech, gate |-> gate]
        ELSE LET m == MatchTable[transcript]
             IN  [detected |-> m.detected, confidence |-> m.confidence,
                  reason |-> m.reason, score |-> m.score, sims |-> m.sims,
                  gate_called |-> called, has_speech |-> has_speech, gate |-> gate]

(***************************************************************************)
(* The audio the gate is run on.                                           *)
(***************************************************************************)
\* Buffers of up to MaxFrames whole frames, with no tail, a tail of one
\* byte, or a tail one byte short of a frame.
Tails == {0, 1, frame_size - 1}

Buffers == {Buffer(v, t) : v \in UNION {[1..n -> Verdicts] : n \in 0..MaxFrames},
                           t \in Tails}

(***************************************************************************)
(* The request pipeline.                                                   *)
(*                                                                         *)
(* The handlers are coroutines of one asyncio event loop (uvicorn.run with *)
(* one worker): a task keeps the loop's thread from the moment it is       *)
(* resumed until its next await that really suspends, "await               *)
(* request.body()" and "await file.read()".  Everything else the handlers  *)
(* await (validate_audio_file, save_buffer_to_temp_file,                   *)
(* WhisperService.transcribe, load_model, detect) runs synchronously       *)
(* inside the awaiting task.  running is the task that holds the thread,   *)
(* 0 when the loop is idle.  A cancellation (asyncio.CancelledError, a     *)
(* BaseException) is delivered to a task at a suspension point.            *)
(***************************************************************************)
\* Concurrent requests.
NumRequests == 2

Requests == 1..NumRequests

VARIABLES
    started,     \* startup_event has run
    model,       \* whisper_service.model: 0 is None, n > 0 the n-th handle loaded
    loads,       \* how many times whisper.load_model has returned a handle
    running,     \* the task holding the event loop's thread, or 0
    pc,          \* where each request's handler is
    req,         \* what each request carries
    temp_path,   \* the handler's local temp_path is set (not None)
    fd,          \* the descriptor mkstemp returned: "none", "open", "closed"
    disk,        \* the request's temp file: "absent", "empty", "data"
    created,     \* mkstemp has allocated a temp file for the request
    resp,        \* the response
    calls,       \* what the handler called: the engine, the detector's gate
    inp,         \* the detector run on its own: the call's arguments
    out          \* and its result

vars == <<started, model, loads, running, pc, req, temp_path, fd, disk, created,
          resp, calls, inp, out>>

\* 25 * 1024 * 1024
MaxUploadBytes == 25 * 1024 * 1024

allowed_types == {"audio/mpeg", "audio/mp3", "audio/wav", "audio/x-wav", "audio/wave"}

Endpoints == {"listen", "recognise"}

\* Declared content types of an upload; "" is an absent one.
ContentTypes == {"", "audio/mpeg", "text/plain"}

\* The audio of a request: none, one silent frame and a byte, and one byte
\* more than the limit, with speech in its first frame (where the gate
\* stops).
Long(n) == [none |-> FALSE, len |-> n, vad |-> <<"speech">>]

Contents == {Buffer(<<>>, 0), Buffer(<<"silence">>, 1), Long(MaxUploadBytes + 1)}

\* A request with an uploaded file: its bytes, whether the transport
\* reports their number (file.size), and the declared content type.
Uploads ==
    {[endpoint |-> e, variant |-> "file", content |-> c, reported |-> rep,
      content_type |-> ct, body |-> "", sample_rate |-> 0] :
        e \in Endpoints, c \in Contents, rep \in BOOLEAN, ct \in ContentTypes}

\* A request without a file: what its body is and, for a well-formed one,
\* the Base64-decoded audio_data and the sample_rate of its audio_buffer.
BadBodies == {"empty", "not_json", "no_audio_buffer", "bad_base64"}

SampleRates == {16000, 8000}

JsonRequests ==
    {[endpoint |-> e, variant |-> "json", content |-> NoAudio, reported |-> FALSE,
      content_type |-> "", body |-> b, sample_rate |-> 0] :
        e \in Endpoints, b \in BadBodies}
    \cup
    {[endpoint |-> e, variant |-> "json", content |-> c, reported |-> FALSE,
      content_type |-> "", body |-> "ok", sample_rate |-> sr] :
        e \in Endpoints, c \in Contents, sr \in SampleRates}

Workload == Uploads \cup JsonRequests

\* Well-formed requests with a little audio, one of each variant.
ValidWorkload ==
    {q \in Workload :
        /\ q.content = Buffer(<<"silence">>, 1)
        /\ q.reported = (q.variant = "file")
        /\ q.content_type = (IF q.variant = "file" THEN "audio/mpeg" ELSE "")
        /\ q.endpoint = (IF q.variant = "file" THEN "listen" ELSE "recognise")}

\* The format tags, channel counts and bit depths of a JSON buffer.
Formats == {<<"m", "p", "3">>, <<"o", "g", "g">>, <<"w", "a", "v">>, <<"W", "A", "V">>}

BitDepths == {8, 16, 24, 32}

ChannelCounts == {1, 2}

\* What the engine transcribes a file to (result["text"].strip()).
EngineTranscripts == {<<"h", "e", "y">>, <<"H", "i", " ", "n", "o", "v", "a">>}

\* The texts self.model.transcribe raises with.
EngineErrors == {"CUDA out of memory", "Invalid data found when processing input"}

\* A response: its status and, where the handler puts an exception's text
\* into the detail, that text; "" in detail is a text fixed in the handler.
NoResponse == [status |-> 0, cancelled |-> FALSE, detected |-> FALSE, confidence |-> 0,
               detail |-> ""]

Answer(st) == [status |-> st, cancelled |-> FALSE, detected |-> FALSE, confidence |-> 0,
               detail |-> ""]

Cancelled == [status |-> 0, cancelled |-> TRUE, detected |-> FALSE, confidence |-> 0,
              detail |-> ""]

\* WhisperService.transcribe's HTTPException(status_code=500,
\* detail=f"Failed to load audio: {str(e)}"), which the handlers' "except
\* HTTPException: raise" passes on.
FailedToLoadAudio(e) == [status |-> 500, cancelled |-> FALSE, detected |-> FALSE,
                         confidence |-> 0, detail |-> e]

\* What a handler has called so far: self.model.transcribe (and the text it
\* raised with, "" when it did not), and the detector, with the sample rate
\* passed to it and what its gate did.
NoCalls == [engine |-> FALSE, error |-> "", detect |-> FALSE, sample_rate |-> 0,
            gate_called |-> FALSE, gate |-> NoGate]

NoCall == [fn |-> "", transcript |-> <<>>, audio_data |-> NoAudio, sample_rate |-> 0,
           librosa |-> NoLibrosa]

NoResult == [returned |-> FALSE]

\* The server before it starts, about to receive the requests of W.
InitServer(W) ==
    /\ started = FALSE
    /\ model = 0
    /\ loads = 0
    /\ running = 0
    /\ pc = [r \in Requests |-> "idle"]
    /\ req \in [Requests -> W]
    /\ temp_path = [r \in Requests |-> FALSE]
    /\ fd = [r \in Requests |-> "none"]
    /\ disk = [r \in Requests |-> "absent"]
    /\ created = [r \in Requests |-> FALSE]
    /\ resp = [r \in Requests |-> NoResponse]
    /\ calls = [r \in Requests |-> NoCalls]

Init ==
    /\ InitServer(Workload)
    /\ inp = NoCall
    /\ out = NoResult

(***************************************************************************)
(* WhisperService.load_model: the handle is loaded when there is none.     *)
(* ok is whether whisper.load_model returns; when it raises, load_model    *)
(* re-raises.                                                              *)
(***************************************************************************)
\* load_model without its "if self.model is None".
load_model_unguarded(m, n, ok) ==
    IF ok
    THEN [model |-> n + 1, loads |-> n + 1, raised |-> FALSE]
    ELSE [model |-> m, loads |-> n, raised |-> TRUE]

load_model(m, n, ok) ==
    IF m = 0
    THEN IF ok
         THEN [model |-> n + 1, loads |-> n + 1, raised |-> FALSE]
         ELSE [model |-> m, loads |-> n, raised |-> TRUE]
    ELSE [model |-> m, loads |-> n, raised |-> FALSE]

\* startup_event: pre-loads the model; a failure is logged and swallowed.
\* uvicorn serves requests once the startup hook has returned.
Startup ==
    /\ ~started
    /\ running = 0
    /\ \E ok \in BOOLEAN :
          LET l == load_model(model, loads, ok)
          IN  /\ model' = l.model
              /\ loads' = l.loads
    /\ started' = TRUE
    /\ UNCHANGED <<running, pc, req, temp_path, fd, disk, created, resp, calls, inp, out>>

(***************************************************************************)
(* The handlers' pieces.                                                   *)
(***************************************************************************)
\* The UploadFile of a request: file.size is -1 for None.
UploadFile(q) == [size |-> IF q.reported THEN q.content.len ELSE -1,
                  content_type |-> q.content_type]

\* validate_audio_file: the status of the HTTPException it raises, 0 when
\* it returns.  None and 0 are both falsy, and so are a None and an empty
\* content type.
validate_audio_file(file) ==
    IF file.size # -1 /\ file.size # 0 /\ file.size > MaxUploadBytes
    THEN 413
    ELSE IF file.content_type # "" /\ file.content_type \notin allowed_types
    THEN 400
    ELSE 0

\* What a write of the content leaves on disk.
Written(content) == IF content.len = 0 THEN "empty" ELSE "data"

\* save_temp_file after mkstemp, once file.read() is over.  A failed read
\* leaves the descriptor open: the except block closes it and unlinks the
\* file.  A failed write leaves it closed by the with block: os.close(temp_fd)
\* then raises OSError (EBADF) inside the except block, before the unlink.
save_temp_file(content, read_ok, write_ok) ==
    IF ~read_ok
    THEN [returned |-> FALSE, fd |-> "closed", disk |-> "absent"]
    ELSE IF ~write_ok
    THEN [returned |-> FALSE, fd |-> "closed", disk |-> "empty"]
    ELSE [returned |-> TRUE, fd |-> "closed", disk |-> Written(content)]

\* The raw-PCM branch up to the reshape: np.frombuffer needs a supported
\* bit depth and a whole number of samples, reshape(-1, channels) a whole
\* number of sample frames.
pcm_decodes(audio_buffer, channels, bit_depth) ==
    /\ bit_depth \in {8, 16, 32}
    /\ audio_buffer.len % (bit_depth \div 8) = 0
    /\ channels > 1 => (audio_buffer.len \div (bit_depth \div 8)) % channels = 0

\* A temp file's content: the buffer's own bytes ("verbatim"), what
\* sf.write made of the parsed container ("wav") or of the reconstructed
\* samples ("pcm", with the parameters it was reconstructed under), nothing
\* yet ("empty"), or no file ("absent").
File(kind, sample_rate, channels, bit_depth) ==
    [kind |-> kind, sample_rate |-> sample_rate, channels |-> channels,
     bit_depth |-> bit_depth]

NoFile == File("absent", 0, 0, 0)

Verbatim == File("verbatim", 0, 0, 0)

\* What os.path.getsize sees of a file holding the buffer, or a WAV
\* sf.write made.
OnDisk(file, audio_buffer) ==
    CASE file.kind = "absent" -> "absent"
      [] file.kind = "empty" -> "empty"
      [] file.kind = "verbatim" -> Written(audio_buffer)
      [] OTHER -> "data"

\* The function returns (temp_path, audio_buffer): the file it leaves, how
\* it was made, the attempts made in order, the write calls made, and the
\* buffer returned.
Returns(how, file, audio_buffer, tried, writes) ==
    [raised |-> FALSE, how |-> how, disk |-> OnDisk(file, audio_buffer),
     file |-> file, tried |-> tried, writes |-> writes, error |-> "none",
     buffer |-> audio_buffer]

\* The outer except: the file is unlinked and the exception, of the attempt
\* error, re-raised.
Raises(tried, writes, error) ==
    [raised |-> TRUE, how |-> "none", disk |-> "absent", file |-> NoFile,
     tried |-> tried, writes |-> writes, error |-> error, buffer |-> NoAudio]

\* The last resort of the "wav" branch, and the outer except behind it:
\* the buffer is written verbatim; if that raises too, the file is
\* unlinked and the exception re-raised.  tried is the attempts made so far,
\* writes the write calls.
final_fallback(audio_buffer, write_ok, tried, writes) ==
    IF write_ok
    THEN Returns("fallback", Verbatim, audio_buffer, Append(tried, "verbatim"), writes + 1)
    ELSE Raises(Append(tried, "verbatim"), writes + 1, "verbatim")

\* The same function when an exception of the raw-PCM branch is not caught
\* by "except Exception as pcm_error" but leaves through the outer except.
save_buffer_to_temp_file_pcm_raises(audio_buffer, format, sample_rate, channels, bit_depth, sf_read_ok, sf_write_ok, pcm_write_ok, write_ok) ==
    IF lower(format) = <<"w", "a", "v">>
    THEN IF sf_read_ok /\ audio_buffer.len > 0
         THEN IF sf_write_ok
              THEN Returns("wav", File("wav", 0, 0, 0), audio_buffer, <<"wav">>, 1)
              ELSE Raises(<<"wav", "pcm">>, 1, "pcm")
         ELSE IF pcm_decodes(audio_buffer, channels, bit_depth)
              THEN IF pcm_write_ok
                   THEN Returns("pcm", File("pcm", sample_rate, channels, bit_depth),
                                audio_buffer, <<"wav", "pcm">>, 1)
                   ELSE Raises(<<"wav", "pcm">>, 1, "pcm")
              ELSE Raises(<<"wav", "pcm">>, 0, "pcm")
    ELSE IF write_ok
         THEN Returns("direct", Verbatim, audio_buffer, <<"direct">>, 1)
         ELSE Raises(<<"direct">>, 1, "direct")

\* The same function with the format compared to "mp3" for the direct
\* write, every other format taken through the "wav" branch.
save_buffer_to_temp_file_mp3_only(audio_buffer, format, sample_rate, channels, bit_depth, sf_read_ok, sf_write_ok, pcm_write_ok, write_ok) ==
    IF lower(format) # <<"m", "p", "3">>
    THEN IF sf_read_ok /\ audio_buffer.len > 0
         THEN IF sf_write_ok
              THEN Returns("wav", File("wav", 0, 0, 0), audio_buffer, <<"wav">>, 1)
              ELSE final_fallback(audio_buffer, write_ok, <<"wav", "pcm">>, 1)
         ELSE IF pcm_decodes(audio_buffer, channels, bit_depth)
              THEN IF pcm_write_ok
                   THEN Returns("pcm", File("pcm", sample_rate, channels, bit_depth),
                                audio_buffer, <<"wav", "pcm">>, 1)
                   ELSE final_fallback(audio_buffer, write_ok, <<"wav", "pcm">>, 1)
              ELSE final_fallback(audio_buffer, write_ok, <<"wav", "pcm">>, 0)
    ELSE IF write_ok
         THEN Returns("direct", Verbatim, audio_buffer, <<"direct">>, 1)
         ELSE Raises(<<"direct">>, 1, "direct")

\* save_buffer_to_temp_file after mkstemp.  sf_read_ok, sf_write_ok,
\* pcm_write_ok and write_ok are whether sf.read (which parses no empty
\* buffer), the sf.write after it, the sf.write of the raw-PCM branch and
\* the plain write return.  When the function returns, the buffer it
\* returns is its argument.
\*
\* When sf.write fails after a successful sf.read, the descriptor is
\* already closed: the os.fdopen that opens the raw-PCM attempt raises, and
\* the attempt ends there, in "except Exception as pcm_error".
save_buffer_to_temp_file(audio_buffer, format, sample_rate, channels, bit_depth, sf_read_ok, sf_write_ok, pcm_write_ok, write_ok) ==
    IF lower(format) = <<"w", "a", "v">>
    THEN IF sf_read_ok /\ audio_buffer.len > 0
         THEN IF sf_write_ok
              THEN Returns("wav", File("wav", 0, 0, 0), audio_buffer, <<"wav">>, 1)
              ELSE final_fallback(audio_buffer, write_ok, <<"wav", "pcm">>, 1)
         ELSE IF pcm_decodes(audio_buffer, channels, bit_depth)
              THEN IF pcm_write_ok
                   THEN Returns("pcm", File("pcm", sample_rate, channels, bit_depth),
                                audio_buffer, <<"wav", "pcm">>, 1)
                   ELSE final_fallback(audio_buffer, write_ok, <<"wav", "pcm">>, 1)
              ELSE final_fallback(audio_buffer, write_ok, <<"wav", "pcm">>, 0)
    ELSE IF write_ok
         THEN Returns("direct", Verbatim, audio_buffer, <<"direct">>, 1)
         ELSE Raises(<<"direct">>, 1, "direct")

\* The status an exception raised inside the handlers' inner try ends in.
\* "except json_module.JSONDecodeError" is evaluated first: json_module is
\* a local of the handler, bound by the import that follows the empty-body
\* check, so before the import the clause itself raises UnboundLocalError
\* and the outer "except Exception" answers 500.  After it, a
\* JSONDecodeError and any other exception (an HTTPException too) are
\* re-raised as HTTPException(400).
inner_except(json_imported) == IF json_imported THEN 400 ELSE 500

\* The handlers' finally: "if temp_path and os.path.exists(temp_path):
\* os.unlink(temp_path)".
finally_unlink(tp, d) == IF tp /\ d # "absent" THEN "absent" ELSE d

\* The handler of r ends: its finally runs and the response is sent.
Finish(r, answer, tp, d) ==
    /\ pc' = [pc EXCEPT ![r] = "done"]
    /\ resp' = [resp EXCEPT ![r] = answer]
    /\ temp_path' = [temp_path EXCEPT ![r] = tp]
    /\ disk' = [disk EXCEPT ![r] = finally_unlink(tp, d)]
    /\ running' = 0

\* mkstemp: the file exists, empty, and its descriptor is open.
Mkstemp(r) ==
    /\ fd' = [fd EXCEPT ![r] = "open"]
    /\ disk' = [disk EXCEPT ![r] = "empty"]
    /\ created' = [created EXCEPT ![r] = TRUE]

\* Requests are numbered in the order they arrive.
NextToArrive(r) == pc[r] = "idle" /\ \A q \in Requests : q < r => pc[q] # "idle"

(***************************************************************************)
(* The handlers, one action per stretch between two suspension points or   *)
(* blocking calls.  transcribe_audio and recognise_wake_word are the same  *)
(* code up to the call of the detector.                                    *)
(***************************************************************************)
\* A request with an uploaded file arrives: validate_audio_file, then
\* save_temp_file up to "await file.read()".
ArriveUpload(r) ==
    /\ started
    /\ running = 0
    /\ NextToArrive(r)
    /\ req[r].variant = "file"
    /\ LET rejected == validate_audio_file(UploadFile(req[r]))
       IN  IF rejected # 0
           THEN /\ Finish(r, Answer(rejected), FALSE, disk[r])
                /\ UNCHANGED <<fd, created>>
           ELSE /\ Mkstemp(r)
                /\ pc' = [pc EXCEPT ![r] = "await_read"]
                /\ UNCHANGED <<temp_path, resp, running>>
    /\ UNCHANGED <<started, model, loads, req, calls, inp, out>>

\* file.read() is over: the rest of save_temp_file.
ReadDone(r) ==
    /\ running = 0
    /\ pc[r] = "await_read"
    /\ \E read_ok \in BOOLEAN, write_ok \in BOOLEAN :
          LET s == save_temp_file(req[r].content, read_ok, write_ok)
          IN  /\ fd' = [fd EXCEPT ![r] = s.fd]
              /\ IF s.returned
                 THEN /\ temp_path' = [temp_path EXCEPT ![r] = TRUE]
                      /\ disk' = [disk EXCEPT ![r] = s.disk]
                      /\ pc' = [pc EXCEPT ![r] = "transcribe"]
                      /\ running' = r
                      /\ UNCHANGED resp
                 ELSE Finish(r, Answer(500), FALSE, s.disk)
    /\ UNCHANGED <<started, model, loads, req, created, calls, inp, out>>

\* A request without a file arrives: up to "await request.body()".
ArriveJson(r) ==
    /\ started
    /\ running = 0
    /\ NextToArrive(r)
    /\ req[r].variant = "json"
    /\ pc' = [pc EXCEPT ![r] = "await_body"]
    /\ UNCHANGED <<started, model, loads, running, req, temp_path, fd, disk, created,
                   resp, calls, inp, out>>

\* The body is there: the JSON branch up to the mkstemp of
\* save_buffer_to_temp_file.  The size check raises HTTPException(413)
\* inside the inner try.
BodyDone(r) ==
    /\ running = 0
    /\ pc[r] = "await_body"
    /\ IF req[r].body = "ok" /\ req[r].content.len <= MaxUploadBytes
       THEN /\ Mkstemp(r)
            /\ pc' = [pc EXCEPT ![r] = "materializing"]
            /\ running' = r
            /\ UNCHANGED <<temp_path, resp>>
       ELSE /\ Finish(r, Answer(inner_except(req[r].body # "empty")), FALSE, disk[r])
            /\ UNCHANGED <<fd, created>>
    /\ UNCHANGED <<started, model, loads, req, calls, inp, out>>

\* The rest of save_buffer_to_temp_file: decoding and writing, all of it
\* synchronous.  An exception it raises is caught by the inner "except
\* Exception".
Materialize(r) ==
    /\ running = r
    /\ pc[r] = "materializing"
    /\ \E f \in Formats, ch \in ChannelCounts, bd \in BitDepths,
          sf_read_ok \in BOOLEAN, sf_write_ok \in BOOLEAN,
          pcm_write_ok \in BOOLEAN, write_ok \in BOOLEAN :
          LET s == save_buffer_to_temp_file(req[r].content, f, req[r].sample_rate, ch, bd,
                                            sf_read_ok, sf_write_ok, pcm_write_ok, write_ok)
          IN  /\ fd' = [fd EXCEPT ![r] = "closed"]
              /\ IF s.raised
                 THEN Finish(r, Answer(inner_except(TRUE)), FALSE, s.disk)
                 ELSE /\ temp_path' = [temp_path EXCEPT ![r] = TRUE]
                      /\ disk' = [disk EXCEPT ![r] = s.disk]
                      /\ pc' = [pc EXCEPT ![r] = "transcribe"]
                      /\ UNCHANGED <<resp, running>>
    /\ UNCHANGED <<started, model, loads, req, created, calls, inp, out>>

\* The request is cancelled while suspended.  CancelledError is no
\* Exception: no except clause of save_temp_file or of the handler catches
\* it, and the handler's finally runs with its own temp_path.
Cancel(r) ==
    /\ running = 0
    /\ pc[r] \in {"await_read", "await_body"}
    /\ Finish(r, Cancelled, temp_path[r], disk[r])
    /\ UNCHANGED <<started, model, loads, req, fd, created, calls, inp, out>>

\* WhisperService.transcribe up to the call of the engine: load_model, then
\* the checks of the file.  An exception of load_model reaches the
\* handler's "except Exception"; the failed checks raise inside transcribe's
\* try, whose except turns them into its HTTPException(500).
TranscribeEnter(r) ==
    /\ running = r
    /\ pc[r] = "transcribe"
    /\ \E ok \in BOOLEAN :
          LET l == load_model(model, loads, ok)
          IN  /\ model' = l.model
              /\ loads' = l.loads
              /\ IF l.raised
                 THEN /\ Finish(r, Answer(500), temp_path[r], disk[r])
                      /\ UNCHANGED calls
                 ELSE IF disk[r] \in {"absent", "empty"}
                 THEN /\ Finish(r, FailedToLoadAudio("Audio file is empty"),
                                temp_path[r], disk[r])
                      /\ UNCHANGED calls
                 ELSE /\ pc' = [pc EXCEPT ![r] = "in_engine"]
                      /\ calls' = [calls EXCEPT ![r].engine = TRUE]
                      /\ UNCHANGED <<resp, temp_path, disk, running>>
    /\ UNCHANGED <<started, req, fd, created, inp, out>>

\* self.model.transcribe raises, or returns: /api/v1/recognise then runs
\* the detector on the transcript and the request's audio, always with
\* sample_rate=16000.
EngineReturn(r) ==
    /\ running = r
    /\ pc[r] = "in_engine"
    /\ \/ \E e \in EngineErrors :
             /\ Finish(r, FailedToLoadAudio(e), temp_path[r], disk[r])
             /\ calls' = [calls EXCEPT ![r].error = e]
       \/ \E t \in EngineTranscripts :
             IF req[r].endpoint = "listen"
             THEN /\ Finish(r, Answer(200), temp_path[r], disk[r])
                  /\ UNCHANGED calls
             ELSE \E d \in {detect(t, req[r].content, 16000, NoLibrosa)} :
                     /\ Finish(r, [status |-> 200, cancelled |-> FALSE,
                                   detected |-> d.detected,
                                   confidence |-> d.confidence, detail |-> ""],
                               temp_path[r], disk[r])
                     /\ calls' = [calls EXCEPT ![r].detect = TRUE,
                                               ![r].sample_rate = 16000,
                                               ![r].gate_called = d.gate_called,
                                               ![r].gate = d.gate]
    /\ UNCHANGED <<started, model, loads, req, fd, created, inp, out>>

\* What request r can do.
Step(r) ==
    \/ ArriveUpload(r)
    \/ ReadDone(r)
    \/ ArriveJson(r)
    \/ BodyDone(r)
    \/ Materialize(r)
    \/ Cancel(r)
    \/ TranscribeEnter(r)
    \/ EngineReturn(r)

Next ==
    \/ Startup
    \/ \E r \in Requests : Step(r)

Spec == Init /\ [][Next]_vars

\* The same server receiving well-formed requests only.
InitValid ==
    /\ InitServer(ValidWorkload)
    /\ inp = NoCall
    /\ out = NoResult

SpecValid == InitValid /\ [][Next]_vars


(***************************************************************************)
(* The detector run on its own: has_speech_activity and detect are         *)
(* functions of their arguments and of what librosa.load and the VAD do.   *)
(* The call is drawn in the initial state, the action applies the          *)
(* function.  The server receives nothing meanwhile.                       *)
(***************************************************************************)
NoRequest == [endpoint |-> "", variant |-> "", content |-> NoAudio, reported |-> FALSE,
              content_type |-> "", body |-> "", sample_rate |-> 0]

\* What librosa.load does when the sample rate makes the gate call it.
LibrosaOutcomes(sample_rate, results) ==
    IF sample_rate = 16000
    THEN {NoLibrosa}
    ELSE {NoLibrosa} \cup {[raises |-> FALSE, data |-> b] : b \in results}

GateCalls ==
    {[fn |-> "has_speech_activity", transcript |-> <<>>, audio_data |-> a,
      sample_rate |-> sr, librosa |-> l] :
        a \in Buffers, sr \in SampleRates, l \in LibrosaOutcomes(8000, Buffers)}

InitGate ==
    /\ InitServer({NoRequest})
    /\ inp \in {c \in GateCalls : c.librosa \in LibrosaOutcomes(c.sample_rate, Buffers)}
    /\ out = NoResult

GateCall ==
    /\ inp.fn = "has_speech_activity"
    /\ ~out.returned
    /\ out' = [returned |-> TRUE,
               gate |-> has_speech_activity(inp.audio_data, inp.sample_rate, inp.librosa)]
    /\ UNCHANGED <<started, model, loads, running, pc, req, temp_path, fd, disk,
                   created, resp, calls, inp>>

SpecGate == InitGate /\ [][GateCall]_vars

\* The audio detect is called with: None, no bytes, and buffers of one
\* frame, with and without a byte after it.
DetectAudio ==
    {NoAudio, Buffer(<<>>, 0), Buffer(<<"speech">>, 0)}
    \cup {Buffer(<<v>>, 1) : v \in Verdicts}

DetectResampled == {Buffer(<<"silence">>, 1), Buffer(<<"speech">>, 1)}

DetectCalls ==
    {[fn |-> "detect", transcript |-> t, audio_data |-> a, sample_rate |-> sr,
      librosa |-> l] :
        t \in Transcripts, a \in DetectAudio, sr \in SampleRates,
        l \in LibrosaOutcomes(8000, DetectResampled)}

InitDetect ==
    /\ InitServer({NoRequest})
    /\ inp \in {c \in DetectCalls :
                   c.librosa \in LibrosaOutcomes(c.sample_rate, DetectResampled)}
    /\ out = NoResult

DetectCall ==
    /\ inp.fn = "detect"
    /\ ~out.returned
    /\ out' = [returned |-> TRUE,
               result |-> detect(inp.transcript, inp.audio_data, inp.sample_rate,
                                 inp.librosa)]
    /\ UNCHANGED <<started, model, loads, running, pc, req, temp_path, fd, disk,
                   created, resp, calls, inp>>

SpecDetect == InitDetect /\ [][DetectCall]_vars


(***************************************************************************)
(* save_buffer_to_temp_file run on its own, on buffers of at most one      *)
(* frame: a function of its arguments and of what sf.read, sf.write and    *)
(* the plain write do.                                                     *)
(***************************************************************************)
SaveBuffers == {b \in Buffers : Len(b.vad) <= 1}

SaveCalls ==
    {[fn |-> "save_buffer_to_temp_file", audio_buffer |-> b, format |-> f,
      sample_rate |-> sr, channels |-> ch, bit_depth |-> bd, sf_read_ok |-> o1,
      sf_write_ok |-> o2, pcm_write_ok |-> o3, write_ok |-> o4] :
        b \in SaveBuffers, f \in Formats, sr \in SampleRates, ch \in ChannelCounts,
        bd \in BitDepths, o1 \in BOOLEAN, o2 \in BOOLEAN, o3 \in BOOLEAN,
        o4 \in BOOLEAN}

InitSave ==
    /\ InitServer({NoRequest})
    /\ inp \in SaveCalls
    /\ out = NoResult

SaveCall ==
    /\ inp.fn = "save_buffer_to_temp_file"
    /\ ~out.returned
    /\ out' = [returned |-> TRUE,
               result |-> save_buffer_to_temp_file(inp.audio_buffer, inp.format,
                              inp.sample_rate, inp.channels, inp.bit_depth,
                              inp.sf_read_ok, inp.sf_write_ok, inp.pcm_write_ok,
                              inp.write_ok)]
    /\ UNCHANGED <<started, model, loads, running, pc, req, temp_path, fd, disk,
                   created, resp, calls, inp>>

SpecSave == InitSave /\ [][SaveCall]_vars


(***************************************************************************)
(* The properties.                                                         *)
(***************************************************************************)
Finished(r) == pc[r] = "done"

\* C1: once a request has finished, with a response or an error (any exit
\* but a cancellation), the temporary file allocated for it no longer
\* exists; so no file is left when all requests have finished.
C1_TempFileReleased ==
    \A r \in Requests : Finished(r) /\ ~resp[r].cancelled => disk[r] = "absent"

\* C2: a request cancelled at a suspension point after its temporary file
\* was allocated leaves no temporary file behind.
C2_CancelledReleased ==
    \A r \in Requests : Finished(r) /\ resp[r].cancelled => disk[r] = "absent"

\* C3: a request whose audio is larger than 25 MiB never has a temporary
\* file created for it, on either endpoint and for either variant.
C3_OversizedNeverAllocates ==
    \A r \in Requests : req[r].content.len > MaxUploadBytes => ~created[r]

\* C4: whisper.load_model returns a handle at most once, whatever the
\* startup hook and the transcribe calls do, and a handle that is there is
\* never replaced or reset.
C4_LoadedAtMostOnce ==
    /\ [](loads <= 1)
    /\ [][model # 0 => model' = model]_vars

\* C4's case: the startup hook and two transcribe calls have all run, both
\* requests were transcribed, and one handle was loaded.
C4_Witness ==
    /\ started
    /\ loads = 1
    /\ model = 1
    /\ \A r \in Requests : Finished(r) /\ resp[r].status = 200
    /\ \E r \in Requests : req[r].variant = "file"
    /\ \E r \in Requests : req[r].variant = "json"

\* C5: while a request is decoding, materializing or inside the engine's
\* call, another request whose awaited input is there can take its step.
C5_OthersNotBlocked ==
    \A a \in Requests, b \in Requests :
        /\ a # b
        /\ pc[a] \in {"materializing", "in_engine"}
        /\ pc[b] \in {"await_read", "await_body"}
        => ENABLED Step(b)

\* The gate is called by detect and reports speech, or no speech.
GateReportsSpeech ==
    /\ Truthy(inp.audio_data)
    /\ has_speech_activity(inp.audio_data, inp.sample_rate, inp.librosa).speech

GateVetoes ==
    /\ Truthy(inp.audio_data)
    /\ ~has_speech_activity(inp.audio_data, inp.sample_rate, inp.librosa).speech

DirectMatch == Contains(strip(lower(inp.transcript)), wake_phrase)

\* C6: when the gate reports no speech, detect returns detected = false and
\* confidence = 0.0 whatever the transcript is, and compares no text.
C6_GateVeto ==
    out.returned /\ GateVetoes =>
        /\ out.result.detected = FALSE
        /\ out.result.confidence = 0
        /\ out.result.reason = "No speech activity detected"
        /\ out.result.sims = 0

\* C6's case: the gate vetoes a transcript that holds the wake phrase.
C6_Witness ==
    /\ out.returned
    /\ GateVetoes
    /\ DirectMatch
    /\ ~out.result.detected

\* The whole frames of a buffer, by number, and those the VAD calls speech.
WholeFrames(audio_data) == 1..(audio_data.len \div frame_size)

NoFrameRaises(audio_data) ==
    \A k \in WholeFrames(audio_data) : audio_data.vad[k] # "error"

\* C7: a buffer is classified as speech if and only if one of its whole
\* 960-byte frames is speech for the VAD.
C7_SpeechIffSomeWholeFrame ==
    out.returned /\ inp.sample_rate = 16000 /\ NoFrameRaises(inp.audio_data) =>
        (out.gate.speech
            <=> \E k \in WholeFrames(inp.audio_data) : inp.audio_data.vad[k] = "speech")

\* Resampling raised, or the VAD raised on a frame it was given.
GateRaised ==
    \/ inp.sample_rate # 16000 /\ inp.librosa.raises
    \/ \E i \in out.gate.analysed : is_speech(out.gate.scanned, i) = "error"

\* C8: when resampling or the analysis of a frame raises, the gate returns
\* true.
C8_FailOpen == out.returned /\ GateRaised => out.gate.speech

\* C8's case: the VAD raises on a frame after a silent one, and the gate
\* answers speech.
C8_Witness ==
    /\ out.returned
    /\ inp.sample_rate = 16000
    /\ Cardinality(out.gate.analysed) = 2
    /\ \E i \in out.gate.analysed : is_speech(out.gate.scanned, i) = "error"
    /\ out.gate.speech

\* The similarities the fuzzy match takes the maximum of: the whole
\* cleaned transcript and each pair of adjacent words against the phrase.
Similarities(transcript) ==
    LET clean == strip(lower(transcript))
        words == split(clean)
    IN  {similarity_score(clean, wake_phrase)}
        \cup {similarity_score(words[k] \o <<" ">> \o words[k + 1], wake_phrase) :
                 k \in 1..(Len(words) - 1)}

\* detected and confidence as the maximum m of them gives them:
\* m >= 0.7, and min(1.2 * m, 1.0) to two decimals.
FuzzyExpected ==
    [t \in Transcripts |->
        LET S == Similarities(t)
            m == CHOOSE x \in S : \A y \in S : RatioGeq(x, y)
        IN  [detected |-> (10 * m.num >= 7 * m.den),
             confidence |-> IF 12 * m.num >= 10 * m.den THEN 100
                            ELSE RoundHundredths(12 * m.num, 10 * m.den)]]

\* C9: when the gate reports speech and the cleaned transcript does not
\* hold the wake phrase, detected and confidence are those of the maximum
\* similarity over the whole transcript and all its 2-word windows.
C9_FuzzyMaximum ==
    out.returned /\ GateReportsSpeech /\ ~DirectMatch =>
        /\ out.result.detected = FuzzyExpected[inp.transcript].detected
        /\ out.result.confidence = FuzzyExpected[inp.transcript].confidence

\* C9's case: a transcript of three words whose last window is the best
\* match, better than the whole transcript, and reaches the threshold.
C9_Witness ==
    /\ out.returned
    /\ GateReportsSpeech
    /\ ~DirectMatch
    /\ Len(split(strip(lower(inp.transcript)))) = 3
    /\ out.result.detected
    /\ out.result.confidence = 96
    /\ ~RatioGeq(similarity_score(strip(lower(inp.transcript)), wake_phrase),
                 [num |-> 8, den |-> 10])

\* C10: when the gate reports speech and the cleaned transcript holds the
\* wake phrase, detect returns detected = true, confidence = 0.95 and
\* "Direct match found", and computes no similarity.
C10_DirectMatch ==
    out.returned /\ GateReportsSpeech /\ DirectMatch =>
        /\ out.result.detected = TRUE
        /\ out.result.confidence = 95
        /\ out.result.reason = "Direct match found"
        /\ out.result.sims = 0

\* C10's case: the phrase in another letter case, with text around it.
C10_Witness ==
    /\ out.returned
    /\ GateReportsSpeech
    /\ DirectMatch
    /\ ~Contains(inp.transcript, wake_phrase)
    /\ Len(inp.transcript) > Len(wake_phrase)
    /\ out.result.reason = "Direct match found"


\* The call is of the "wav" branch: format.lower() == "wav".
WavCall == out.returned /\ lower(inp.format) = <<"w", "a", "v">>

\* Attempt (1) succeeds: sf.read parses the buffer and sf.write writes it.
ContainerSucceeds ==
    inp.sf_read_ok /\ inp.audio_buffer.len > 0 /\ inp.sf_write_ok

\* The bytes are a whole number of samples of a supported width, and of
\* sample frames of inp.channels channels.
WholeSamples ==
    /\ inp.bit_depth \in {8, 16, 32}
    /\ inp.audio_buffer.len % (inp.bit_depth \div 8) = 0

WholeSampleFrames ==
    inp.channels > 1 =>
        (inp.audio_buffer.len \div (inp.bit_depth \div 8)) % inp.channels = 0

\* Attempt (2) succeeds: the buffer did not parse, it reconstructs as raw
\* PCM under the caller's parameters, and sf.write writes it.
PcmSucceeds ==
    /\ ~(inp.sf_read_ok /\ inp.audio_buffer.len > 0)
    /\ WholeSamples
    /\ WholeSampleFrames
    /\ inp.pcm_write_ok

\* C11: for format "wav" the attempts are made in the order container,
\* raw PCM, verbatim; an attempt is made only when every earlier one
\* failed and the first success ends the chain, leaving that attempt's
\* file; when the first two fail, no exception of theirs leaves the
\* function: the buffer is written verbatim, and only a failure of that
\* last write raises.
C11_FallbackChain ==
    WavCall =>
        LET r == out.result
        IN  /\ ContainerSucceeds =>
                r.tried = <<"wav">> /\ ~r.raised /\ r.file.kind = "wav"
            /\ ~ContainerSucceeds /\ PcmSucceeds =>
                /\ r.tried = <<"wav", "pcm">>
                /\ ~r.raised
                /\ r.file = File("pcm", inp.sample_rate, inp.channels, inp.bit_depth)
            /\ ~ContainerSucceeds /\ ~PcmSucceeds =>
                /\ r.tried = <<"wav", "pcm", "verbatim">>
                /\ r.error \in {"none", "verbatim"}
                /\ r.raised = ~inp.write_ok
                /\ ~r.raised => r.file = Verbatim /\ r.buffer = inp.audio_buffer

\* C11's case: a 16-bit "wav" buffer of an odd number of bytes parses
\* neither as a container nor as raw PCM, and is written verbatim.
C11_Witness ==
    /\ WavCall
    /\ ~inp.sf_read_ok
    /\ inp.bit_depth = 16
    /\ inp.audio_buffer.len % 2 = 1
    /\ out.result.tried = <<"wav", "pcm", "verbatim">>
    /\ ~out.result.raised
    /\ out.result.file = Verbatim

\* C12: a "wav" buffer that does not parse as a container and whose bit
\* depth is not 8, 16 or 32 is rejected: the call raises with the error of
\* the raw-PCM attempt and leaves no file.
C12_UnsupportedBitDepthRejected ==
    WavCall /\ ~(inp.sf_read_ok /\ inp.audio_buffer.len > 0)
            /\ inp.bit_depth \notin {8, 16, 32} =>
        /\ out.result.raised
        /\ out.result.error = "pcm"
        /\ out.result.file.kind = "absent"

\* C13: a raw-PCM buffer with more than one channel whose samples do not
\* divide into the channels fails, with the error of the raw-PCM attempt,
\* and produces no output.
C13_ChannelMismatchFails ==
    WavCall /\ ~(inp.sf_read_ok /\ inp.audio_buffer.len > 0)
            /\ WholeSamples /\ ~WholeSampleFrames =>
        /\ out.result.raised
        /\ out.result.error = "pcm"
        /\ out.result.file.kind = "absent"

C15_InvalidUploadRejected ==
    \A r \in Requests :
        /\ req[r].variant = "file"
        /\ \/ req[r].content.len > MaxUploadBytes
           \/ req[r].content_type # "" /\ req[r].content_type \notin allowed_types
        => ~created[r] /\ ~calls[r].engine

\* C16: a request without a file whose body is empty, is not JSON or has
\* no audio_buffer is answered 400, makes no temp file and does not reach
\* the engine.
C16_MalformedBodyIsClientError ==
    \A r \in Requests :
        /\ Finished(r)
        /\ ~resp[r].cancelled
        /\ req[r].variant = "json"
        /\ req[r].body \in {"empty", "not_json", "no_audio_buffer"}
        => resp[r].status = 400 /\ ~created[r] /\ ~calls[r].engine

\* C17: two requests that are the same and on which the engine failed get
\* the same response, whatever texts the engine failed with.
C17_EngineErrorNotExposed ==
    \A a \in Requests, b \in Requests :
        /\ Finished(a) /\ Finished(b)
        /\ req[a] = req[b]
        /\ calls[a].error # "" /\ calls[b].error # ""
        => resp[a] = resp[b]

\* C18: when the detector's gate runs on the audio of a JSON buffer that
\* declares a sample rate other than 16000, the audio is resampled before
\* a frame of it is analysed.
C18_ResampledBeforeFraming ==
    \A r \in Requests :
        /\ calls[r].detect /\ calls[r].gate_called
        /\ req[r].variant = "json"
        /\ req[r].sample_rate # 16000
        => calls[r].gate.resampled \/ calls[r].gate.analysed = {}

\* C19: whatever detect returns, after a veto of the gate, a direct match
\* or the fuzzy match, detected is a boolean and the confidence lies
\* between 0 and 1 (0 and 100 hundredths).
C19_ResultBounds ==
    out.returned =>
        /\ out.result.detected \in BOOLEAN
        /\ out.result.confidence \in 0..100

\* C19's case: the fuzzy match of a transcript whose best window is the
\* wake phrase itself: 1.2 times the similarity exceeds 1 and the
\* confidence returned is 1.
C19_Witness ==
    /\ out.returned
    /\ out.result.reason = "Similarity score"
    /\ out.result.score = 100
    /\ out.result.confidence = 100
    /\ out.result.detected

\* C20: a JSON buffer whose decoded audio is larger than 25 MiB is answered
\* 413, as an oversized upload is.
C20_OversizedBufferIs413 ==
    \A r \in Requests :
        /\ Finished(r)
        /\ ~resp[r].cancelled
        /\ req[r].variant = "json"
        /\ req[r].body = "ok"
        /\ req[r].content.len > MaxUploadBytes
        => resp[r].status = 413

\* C21: when detect is called with None or with an empty byte string, the
\* gate is not called and speech is assumed: the result is the one the
\* transcript's match gives, whatever the sample rate, and never the veto.
C21_NoAudioSkipsGate ==
    out.returned /\ (inp.audio_data.none \/ inp.audio_data.len = 0) =>
        LET m == MatchTable[inp.transcript]
        IN  /\ ~out.result.gate_called
            /\ out.result.has_speech
            /\ out.result.gate.analysed = {}
            /\ out.result.reason # "No speech activity detected"
            /\ out.result.detected = m.detected
            /\ out.result.confidence = m.confidence
            /\ out.result.reason = m.reason

\* C21's case: detect called with an empty byte string and a sample rate
\* of 8000 on a transcript that matches fuzzily.
C21_Witness ==
    /\ out.returned
    /\ ~inp.audio_data.none
    /\ inp.audio_data.len = 0
    /\ inp.sample_rate = 8000
    /\ out.result.reason = "Similarity score"
    /\ out.result.detected

=============================================================================
